---- MODULE Spec2Model ----
(***************************************************************************)
(* Model of the weather ingestion pipeline of src/main.py: secret lookup,  *)
(* configuration validation, the per-city fetch/transform loop, the        *)
(* archive upload and the table load, over consecutive runs under a        *)
(* wall clock.                                                             *)
(***************************************************************************)
EXTENDS Integers, Sequences, FiniteSets, TLC

(* ---------------- bounds of the model ---------------- *)

\* clock resolution: ticks per wall-clock second
TicksPerSec == 2
\* the clock is observed for this many ticks after the first run starts
MaxClock == 3
\* longest time one blocking external call (or the scheduler gap) takes
MaxDelay == 2
\* number of consecutive runs
MaxRuns == 2

\* wall-clock instants (epoch seconds, UTC) at which the first run may start:
\* 2023-12-31T23:59:59, one second before every field of the date rolls over
StartEpochs == {1704067199}

(* ---------------- Python values ---------------- *)

\* None / JSON null for an optional leaf value; a present value v is <<v>>
Null == <<>>
Some(v) == <<v>>

\* a dict is a function over a finite set of string keys
EmptyDict == [k \in {} |-> 0]

\* dict.get(key, default)
Get(d, k, default) == IF k \in DOMAIN d THEN d[k] ELSE default

\* dict.get(key) for a leaf: the value, or None
GetLeaf(d, k) == IF k \in DOMAIN d THEN Some(d[k]) ELSE Null

(* ---------------- configuration ---------------- *)

CITIES ==
  << [name |-> "Bhubaneswar", lat |-> 2027, lon |-> 8584, country |-> "IN"],
     [name |-> "Delhi",       lat |-> 2870, lon |-> 7710, country |-> "IN"],
     [name |-> "Mumbai",      lat |-> 1907, lon |-> 7287, country |-> "IN"] >>

\* values a configuration variable read from the environment may have
ConfigValues == {"", "set"}

ConfigKeys == {"GCP_PROJECT_ID", "GCS_BUCKET_NAME", "BIGQUERY_DATASET_ID", "BIGQUERY_TABLE_ID"}

(* ---------------- calendar and formatting ---------------- *)

\* civil date (proleptic Gregorian) of a day number counted from 1970-01-01
CivilFromDays(days) ==
  LET z    == days + 719468
      era  == z \div 146097
      doe  == z - era * 146097
      yoe  == (doe - (doe \div 1460) + (doe \div 36524) - (doe \div 146096)) \div 365
      doy  == doe - (365 * yoe + (yoe \div 4) - (yoe \div 100))
      mp   == (5 * doy + 2) \div 153
      d    == doy - ((153 * mp + 2) \div 5) + 1
      m    == IF mp < 10 THEN mp + 3 ELSE mp - 9
      y    == yoe + era * 400 + (IF m <= 2 THEN 1 ELSE 0)
  IN  [year |-> y, month |-> m, day |-> d]

\* datetime.utcfromtimestamp(secs): broken-down UTC time
utcfromtimestamp(secs) ==
  LET date == CivilFromDays(secs \div 86400)
      sod  == secs % 86400
  IN  [year |-> date.year, month |-> date.month, day |-> date.day,
       hour |-> sod \div 3600, minute |-> (sod % 3600) \div 60, second |-> sod % 60,
       frac |-> 0]

DigitChar == <<"0", "1", "2", "3", "4", "5", "6", "7", "8", "9">>

\* n as w zero-padded decimal digits
RECURSIVE Pad(_, _)
Pad(n, w) == IF w = 0 THEN <<>> ELSE Pad(n \div 10, w - 1) \o <<DigitChar[(n % 10) + 1]>>

\* strftime("%d%m%Y_%H%M%S"): the date written day first
strftime_day_first(t) ==
  Pad(t.day, 2) \o Pad(t.month, 2) \o Pad(t.year, 4) \o <<"_">> \o
  Pad(t.hour, 2) \o Pad(t.minute, 2) \o Pad(t.second, 2)

\* strftime("%Y%m%d_%H%M%S")
strftime(t) ==
  Pad(t.year, 4) \o Pad(t.month, 2) \o Pad(t.day, 2) \o <<"_">> \o
  Pad(t.hour, 2) \o Pad(t.minute, 2) \o Pad(t.second, 2)

\* isoformat(): YYYY-MM-DDTHH:MM:SS, followed by the fraction when it is not zero
isoformat(t) ==
  Pad(t.year, 4) \o <<"-">> \o Pad(t.month, 2) \o <<"-">> \o Pad(t.day, 2) \o <<"T">> \o
  Pad(t.hour, 2) \o <<":">> \o Pad(t.minute, 2) \o <<":">> \o Pad(t.second, 2) \o
  (IF t.frac = 0 THEN <<>> ELSE <<".">> \o Pad(t.frac, 1))

\* code point order of the characters of a formatted timestamp
Ord(c) ==
  CASE c = "0" -> 48 [] c = "1" -> 49 [] c = "2" -> 50 [] c = "3" -> 51
    [] c = "4" -> 52 [] c = "5" -> 53 [] c = "6" -> 54 [] c = "7" -> 55
    [] c = "8" -> 56 [] c = "9" -> 57 [] c = "_" -> 95 [] OTHER -> 0

\* lexicographic order of two strings given as character sequences
RECURSIVE LexLess(_, _)
LexLess(a, b) ==
  IF b = <<>> THEN FALSE
  ELSE IF a = <<>> THEN TRUE
  ELSE IF Head(a) = Head(b) THEN LexLess(Tail(a), Tail(b))
  ELSE Ord(Head(a)) < Ord(Head(b))

\* the object key of the archive, f"raw_weather_data/{timestamp_str}_weather.json"
gcs_file_name(timestamp_str) ==
  [prefix |-> "raw_weather_data/", stamp |-> timestamp_str, suffix |-> "_weather.json"]

\* string order of two object keys (prefix and suffix are the same literal)
KeyLess(k1, k2) ==
  /\ k1.prefix = k2.prefix
  /\ k1.suffix = k2.suffix
  /\ LexLess(k1.stamp, k2.stamp)

(* ---------------- readings of the weather API ---------------- *)

\* response.json() is JSON null (None) or a JSON object (dict)
PyNone == [tag |-> "None"]
PyDict(d) == [tag |-> "dict", d |-> d]

FullReading ==
  [main    |-> [temp |-> 30, feels_like |-> 33, humidity |-> 70, pressure |-> 1008],
   wind    |-> [speed |-> 4],
   clouds  |-> [all |-> 40],
   weather |-> << [main |-> "Clouds", description |-> "scattered clouds"] >>,
   dt      |-> 1704067190]

\* d without the keys in ks
Without(d, ks) == [k \in (DOMAIN d) \ ks |-> d[k]]

\* a reading with the clouds and weather blocks missing, an empty wind block
\* and a main block with one leaf only
SparseReading ==
  [main |-> [temp |-> 30], wind |-> EmptyDict, dt |-> 1704067190]

\* the readings a fetch may return: null, {}, a complete reading, a reading with
\* blocks and leaf fields missing, readings with no "dt", a reading whose
\* "weather" list is present but empty
Readings ==
  { PyNone,
    PyDict(EmptyDict),
    PyDict(FullReading),
    PyDict(SparseReading),
    PyDict(Without(FullReading, {"dt"})),
    PyDict(Without(SparseReading, {"dt"})),
    PyDict([FullReading EXCEPT !.weather = <<>>]) }

\* "not raw_data": None and the empty dict are falsy
Falsy(raw_data) == raw_data.tag = "None" \/ DOMAIN raw_data.d = {}

\* the exception, if any, that evaluating lines 46-64 raises on a truthy dict:
\* [{}][0] on an empty list is an IndexError, utcfromtimestamp(None) a TypeError
TransformException(d) ==
  IF "weather" \in DOMAIN d /\ Len(d.weather) = 0 THEN "IndexError"
  ELSE IF "dt" \notin DOMAIN d THEN "TypeError"
  ELSE "none"

\* the dict built at lines 51-64
Record(d, city_name, country_code, now) ==
  LET main_data    == Get(d, "main", EmptyDict)
      wind_data    == Get(d, "wind", EmptyDict)
      clouds_data  == Get(d, "clouds", EmptyDict)
      weather_info == Get(d, "weather", <<EmptyDict>>)[1]
  IN  [city_name           |-> city_name,
       country_code        |-> country_code,
       timestamp           |-> isoformat(utcfromtimestamp(d.dt)),
       temperature_c       |-> GetLeaf(main_data, "temp"),
       feels_like_c        |-> GetLeaf(main_data, "feels_like"),
       humidity            |-> GetLeaf(main_data, "humidity"),
       pressure            |-> GetLeaf(main_data, "pressure"),
       wind_speed_mps      |-> GetLeaf(wind_data, "speed"),
       weather_main        |-> GetLeaf(weather_info, "main"),
       weather_description |-> GetLeaf(weather_info, "description"),
       cloudiness_percent  |-> GetLeaf(clouds_data, "all"),
       data_ingestion_time |-> isoformat(now)]

\* transform_weather_data: None, an exception, or a record; now is utcnow()
transform_weather_data(raw_data, city_name, country_code, now) ==
  IF Falsy(raw_data) THEN [kind |-> "None"]
  ELSE IF TransformException(raw_data.d) # "none"
       THEN [kind |-> "raise", exc |-> TransformException(raw_data.d)]
  ELSE [kind |-> "record", rec |-> Record(raw_data.d, city_name, country_code, now)]

(* ---------------- JSON ---------------- *)

\* the keys of a record in insertion order
FieldOrder ==
  << "city_name", "country_code", "timestamp", "temperature_c", "feels_like_c",
     "humidity", "pressure", "wind_speed_mps", "weather_main",
     "weather_description", "cloudiness_percent", "data_ingestion_time" >>

OptionalFields == { FieldOrder[k] : k \in 4..11 }

\* a field value as JSON: None is null, anything else its value
JsonValue(name, v) ==
  IF name \in OptionalFields
  THEN (IF v = Null THEN [json |-> "null"] ELSE [json |-> "value", v |-> v[1]])
  ELSE [json |-> "value", v |-> v]

\* a dump of the first record only
json_dumps_first(data) ==
  [content |-> "array",
   items |-> [n \in 1..1 |->
               [k \in 1..Len(FieldOrder) |->
                 [key |-> FieldOrder[k], value |-> JsonValue(FieldOrder[k], data[n][FieldOrder[k]])]]]]

\* json.dumps(list of records): one array, each record an object whose members
\* are in insertion order
json_dumps(data) ==
  [content |-> "array",
   items |-> [n \in 1..Len(data) |->
               [k \in 1..Len(FieldOrder) |->
                 [key |-> FieldOrder[k], value |-> JsonValue(FieldOrder[k], data[n][FieldOrder[k]])]]]]

\* the list of records a JSON array of objects decodes to
json_loads(doc) ==
  [n \in 1..Len(doc.items) |->
    [name \in { doc.items[n][k].key : k \in 1..Len(doc.items[n]) } |->
      LET m == CHOOSE k \in 1..Len(doc.items[n]) : doc.items[n][k].key = name
          jv == doc.items[n][m].value
      IN  IF name \in OptionalFields
          THEN (IF jv.json = "null" THEN Null ELSE Some(jv.v))
          ELSE jv.v]]

(* ---------------- state ---------------- *)

VARIABLES
  config,                \* the four module-level configuration values
  epoch0,                \* wall-clock second at which the first run starts
  clock,                 \* ticks elapsed since epoch0
  run,                   \* number of the current run of main()
  started,               \* clock at which the current run started
  pc,                    \* position of the current run in main()
  error,                 \* the exception that left main(), "none" otherwise
  api_key,               \* the value returned by get_secret_value
  i,                     \* index in CITIES of the next city of the loop
  all_transformed_data,  \* the Batch
  secret_calls,          \* secret store lookups made by this run
  fetched,               \* names of the cities requested from the weather API by this run
  log,                   \* per city of this run: what happened and the message printed
  last_transform,        \* <<[raw, result]>> of the latest transform call of this run
  uploads,               \* [key, payload, outcome] of each upload_to_gcs call of this run
  loads,                 \* data_records of each load_to_bigquery call of this run
  inserts,               \* [rows, outcome] of each insert_rows_json call of this run
  objects                \* archive objects written so far: [run, started, at, key]

vars == << config, epoch0, clock, run, started, pc, error, api_key, i,
           all_transformed_data, secret_calls, fetched, log, last_transform,
           uploads, loads, inserts, objects >>

\* datetime.utcnow() when the clock shows c
utcnow(c) == [utcfromtimestamp(epoch0 + (c \div TicksPerSec)) EXCEPT !.frac = c % TicksPerSec]

\* a blocking call takes d ticks
Elapse(d) == clock + d <= MaxClock /\ clock' = clock + d

Delays == 0..MaxDelay

Init ==
  /\ config \in [ConfigKeys -> ConfigValues]
  /\ epoch0 \in StartEpochs
  /\ clock = 0
  /\ run = 1
  /\ started = 0
  /\ pc = "start"
  /\ error = "none"
  /\ api_key = ""
  /\ i = 1
  /\ all_transformed_data = <<>>
  /\ secret_calls = 0
  /\ fetched = <<>>
  /\ log = <<>>
  /\ last_transform = <<>>
  /\ uploads = <<>>
  /\ loads = <<>>
  /\ inserts = <<>>
  /\ objects = <<>>

(* ---------------- main(): pre-flight ---------------- *)

\* outcomes of client.access_secret_version(...).payload.data.decode("UTF-8")
SecretOutcomes == {"raise", "", "key-123"}

\* line 93: api_key = get_secret_value("OPENWEATHER_API_KEY")
get_secret_value ==
  /\ pc = "start"
  /\ \E d \in Delays, out \in SecretOutcomes :
       /\ Elapse(d)
       /\ secret_calls' = secret_calls + 1
       /\ IF out = "raise"
          THEN pc' = "raised" /\ error' = "SecretManagerError" /\ api_key' = api_key
          ELSE pc' = "validate" /\ error' = error /\ api_key' = out
  /\ UNCHANGED << config, epoch0, run, started, i, all_transformed_data, fetched, log,
                  last_transform, uploads, loads, inserts, objects >>

\* a check of the credential that never fires
KeyMissing_never(key) == FALSE

\* line 95: "if not api_key"
KeyMissing(key) == key = ""

\* a check of the configuration that never fires
ConfigMissing_never(cfg) == FALSE

\* line 97: "if not GCP_PROJECT_ID or not GCS_BUCKET_NAME or ..."
ConfigMissing(cfg) == \E k \in ConfigKeys : cfg[k] = ""

\* lines 95-100: the two checks, then the empty Batch
Validate ==
  /\ pc = "validate"
  /\ IF KeyMissing(api_key) \/ ConfigMissing(config)
     THEN pc' = "raised" /\ error' = "ValueError" /\ UNCHANGED all_transformed_data
     ELSE pc' = "loop" /\ error' = error /\ all_transformed_data' = <<>>
  /\ UNCHANGED << config, epoch0, clock, run, started, api_key, i, secret_calls, fetched,
                  log, last_transform, uploads, loads, inserts, objects >>

(* ---------------- main(): the city loop ---------------- *)

RequestExceptions == {"HTTPError", "ConnectionError"}

\* what requests.get / raise_for_status / response.json() may raise
FetchExceptions == RequestExceptions \cup {"JSONDecodeError"}

\* a loop that handles request exceptions only and lets any other one leave main()
except_clause_requests_only(exc) ==
  IF exc \in RequestExceptions
  THEN [pc |-> "loop", msg |-> "Error fetching data"]
  ELSE [pc |-> "raised", msg |-> "none"]

\* lines 111-114: both except clauses print and let the loop go on
except_clause(exc) ==
  IF exc \in RequestExceptions
  THEN [pc |-> "loop", msg |-> "Error fetching data"]
  ELSE [pc |-> "loop", msg |-> "An unexpected error occurred"]

\* an insertion at the front of the list
append_front(data, rec) == <<rec>> \o data

\* line 108: all_transformed_data.append(transformed_record)
append(data, rec) == Append(data, rec)

\* lines 102-114: one iteration of the loop
ProcessCity ==
  /\ pc = "loop"
  /\ i <= Len(CITIES)
  /\ LET city == CITIES[i] IN
     \E d \in Delays :
       /\ Elapse(d)
       /\ fetched' = Append(fetched, city.name)
       /\ \/ \E exc \in FetchExceptions :
               /\ pc' = except_clause(exc).pc
               /\ error' = IF except_clause(exc).pc = "raised" THEN exc ELSE error
               /\ log' = Append(log, [city |-> city.name, event |-> "fetch raised",
                                       msg |-> except_clause(exc).msg])
               /\ UNCHANGED << all_transformed_data, last_transform >>
          \/ \E raw_data \in Readings :
               LET res == transform_weather_data(raw_data, city.name, city.country, utcnow(clock + d)) IN
               /\ last_transform' = << [raw |-> raw_data, result |-> res] >>
               /\ CASE res.kind = "record" ->
                         /\ all_transformed_data' = append(all_transformed_data, res.rec)
                         /\ log' = Append(log, [city |-> city.name, event |-> "record",
                                                 msg |-> "none"])
                         /\ UNCHANGED << pc, error >>
                    [] res.kind = "None" ->
                         /\ log' = Append(log, [city |-> city.name, event |-> "reading absent",
                                                 msg |-> "Failed to transform data"])
                         /\ UNCHANGED << all_transformed_data, pc, error >>
                    [] res.kind = "raise" ->
                         /\ pc' = except_clause(res.exc).pc
                         /\ error' = IF except_clause(res.exc).pc = "raised" THEN res.exc ELSE error
                         /\ log' = Append(log, [city |-> city.name, event |-> "transform raised",
                                                 msg |-> except_clause(res.exc).msg])
                         /\ UNCHANGED all_transformed_data
  /\ i' = i + 1
  /\ UNCHANGED << config, epoch0, run, started, api_key, secret_calls, uploads, loads,
                  inserts, objects >>

(* ---------------- main(): the write phase ---------------- *)

\* a write phase that is entered whatever was collected
HasData_always(data) == TRUE

\* line 116: "if all_transformed_data"
HasData(data) == Len(data) > 0

\* an upload whose exception is swallowed
after_upload_swallow(outcome) == [pc |-> "load", error |-> "none"]

\* line 119: an exception of upload_to_gcs leaves main(); a return goes on to line 120
after_upload(outcome) ==
  IF outcome = "raise" THEN [pc |-> "raised", error |-> "StorageError"]
  ELSE [pc |-> "load", error |-> "none"]

UploadOutcomes == {"ok", "raise"}

\* lines 116-119 and 66-72: the key from the clock, the upload of the whole Batch
Archive ==
  /\ pc = "loop"
  /\ i > Len(CITIES)
  /\ HasData(all_transformed_data)
  /\ LET timestamp_str == strftime(utcnow(clock))
         key == gcs_file_name(timestamp_str)
     IN \E d \in Delays, outcome \in UploadOutcomes :
          /\ Elapse(d)
          /\ uploads' = Append(uploads, [key |-> key, payload |-> json_dumps(all_transformed_data),
                                         outcome |-> outcome])
          /\ objects' = IF outcome = "ok"
                        THEN Append(objects, [run |-> run, started |-> started, at |-> clock, key |-> key])
                        ELSE objects
          /\ pc' = after_upload(outcome).pc
          /\ error' = IF after_upload(outcome).pc = "raised" THEN after_upload(outcome).error ELSE error
  /\ UNCHANGED << config, epoch0, run, started, api_key, i, all_transformed_data,
                  secret_calls, fetched, log, last_transform, loads, inserts >>

\* lines 121-122: nothing collected, nothing written
NoData ==
  /\ pc = "loop"
  /\ i > Len(CITIES)
  /\ ~HasData(all_transformed_data)
  /\ pc' = "done"
  /\ UNCHANGED << config, epoch0, clock, run, started, error, api_key, i,
                  all_transformed_data, secret_calls, fetched, log, last_transform,
                  uploads, loads, inserts, objects >>

\* outcomes of load_to_bigquery past its empty check: the client cannot be built,
\* insert_rows_json raises, returns errors, or returns no errors
LoadOutcomes == {"client_raise", "insert_raise", "errors", "ok"}

\* a loader that raises on a non-empty error list
after_insert_raise(outcome) ==
  IF outcome \in {"insert_raise", "errors"} THEN [pc |-> "raised", error |-> "BigQueryError"]
  ELSE [pc |-> "done", error |-> "none"]

\* lines 85-88: an error list is printed, not raised
after_insert(outcome) ==
  IF outcome = "insert_raise" THEN [pc |-> "raised", error |-> "BigQueryError"]
  ELSE [pc |-> "done", error |-> "none"]

\* lines 120 and 74-88: the empty check of line 76, the client, the one insertion
load_to_bigquery ==
  /\ pc = "load"
  /\ loads' = Append(loads, all_transformed_data)
  /\ IF all_transformed_data = <<>>
     THEN /\ pc' = "done"
          /\ UNCHANGED << clock, error, inserts >>
     ELSE \E d \in Delays, outcome \in LoadOutcomes :
          /\ Elapse(d)
          /\ IF outcome = "client_raise"
             THEN pc' = "raised" /\ error' = "BigQueryError" /\ inserts' = inserts
             ELSE /\ inserts' = Append(inserts, [rows |-> all_transformed_data, outcome |-> outcome])
                  /\ pc' = after_insert(outcome).pc
                  /\ error' = IF after_insert(outcome).pc = "raised"
                              THEN after_insert(outcome).error ELSE error
  /\ UNCHANGED << config, epoch0, run, started, api_key, i, all_transformed_data,
                  secret_calls, fetched, log, last_transform, uploads, objects >>

(* ---------------- the scheduler ---------------- *)

\* the next scheduled invocation of main(), after the previous one has ended
NextRun ==
  /\ pc \in {"done", "raised"}
  /\ run < MaxRuns
  /\ \E d \in Delays : Elapse(d)
  /\ run' = run + 1
  /\ started' = clock'
  /\ pc' = "start"
  /\ error' = "none"
  /\ api_key' = ""
  /\ i' = 1
  /\ all_transformed_data' = <<>>
  /\ secret_calls' = 0
  /\ fetched' = <<>>
  /\ log' = <<>>
  /\ last_transform' = <<>>
  /\ uploads' = <<>>
  /\ loads' = <<>>
  /\ inserts' = <<>>
  /\ UNCHANGED << config, epoch0, objects >>

Next ==
  \/ get_secret_value
  \/ Validate
  \/ ProcessCity
  \/ Archive
  \/ NoData
  \/ load_to_bigquery
  \/ NextRun

Spec == Init /\ [][Next]_vars

(* ---------------- properties ---------------- *)

CityNames == [n \in 1..Len(CITIES) |-> CITIES[n].name]

\* the city loop of the current run has visited every city
LoopOver == i > Len(CITIES)

\* main() has ended, by returning or by raising
Ended == pc \in {"done", "raised"}

\* the exceptions a single city's fetch or transform raises
PerCityExceptions == FetchExceptions \cup {"IndexError", "TypeError"}

\* the Batch holds a record of the city
InBatch(name) == \E m \in 1..Len(all_transformed_data) : all_transformed_data[m].city_name = name

\* C1: whichever cities fail (fetch raises, reading absent, transform raises),
\* the loop visits every city in order, no per-city exception leaves main(),
\* the Batch holds a record of a city exactly when its fetch and transform
\* succeeded, and the write phase is entered only after every city was requested.
C1_FailuresIsolated ==
  /\ error \notin PerCityExceptions
  /\ (pc = "raised" /\ error \notin {"SecretManagerError", "ValueError"}) => LoopOver
  /\ pc \in {"load", "done"} => LoopOver
  /\ Len(log) = i - 1
  /\ fetched = SubSeq(CityNames, 1, i - 1)
  /\ \A n \in 1..Len(log) :
       /\ log[n].city = CityNames[n]
       /\ (log[n].event = "record") <=> InBatch(CityNames[n])
  /\ \A m \in 1..Len(all_transformed_data) :
       \E n \in 1..Len(log) : log[n].city = all_transformed_data[m].city_name

\* C1 witness: the first city's fetch raised, the second city's transform raised,
\* the third succeeded, and the run went on to its end
C1_Witness ==
  /\ pc = "done"
  /\ Len(log) = 3
  /\ log[1].event = "fetch raised"
  /\ log[2].event = "transform raised"
  /\ log[3].event = "record"
  /\ Len(all_transformed_data) = 1
  /\ all_transformed_data[1].city_name = "Mumbai"

\* C2: when the Batch is empty after every city was processed, no archive
\* upload, no table load and no row insertion has been made, and the run has
\* not raised.
C2_EmptyBatchNoWrites ==
  (LoopOver /\ all_transformed_data = <<>>) =>
     /\ uploads = <<>>
     /\ loads = <<>>
     /\ inserts = <<>>
     /\ objects = SelectSeq(objects, LAMBDA o : o.run < run)
     /\ pc \in {"loop", "done"}
     /\ error = "none"

\* C2 witness: every city's fetch failed and the run completed
C2_Witness ==
  /\ pc = "done"
  /\ LoopOver
  /\ all_transformed_data = <<>>
  /\ \A n \in 1..Len(log) : log[n].event = "fetch raised"

AnyConfigEmpty == \E k \in ConfigKeys : config[k] = ""

\* the secret lookup of this run returned an empty credential
CredentialEmpty == secret_calls > 0 /\ api_key = "" /\ error # "SecretManagerError"

C4_NoFetchWithoutCredential ==
  (secret_calls > 0 /\ api_key = "") =>
     /\ pc \in {"validate", "raised"}
     /\ pc = "raised" => error \in {"ValueError", "SecretManagerError"}
     /\ fetched = <<>>
     /\ uploads = <<>>
     /\ loads = <<>>
     /\ inserts = <<>>

\* C4 witness: the configuration is complete, the secret came back empty, the run raised
C4_Witness ==
  /\ pc = "raised"
  /\ error = "ValueError"
  /\ ~AnyConfigEmpty
  /\ secret_calls = 1
  /\ api_key = ""

\* position of a city name in CITIES, 0 when it is not there
CityIndex(name) ==
  IF \E n \in 1..Len(CITIES) : CITIES[n].name = name
  THEN CHOOSE n \in 1..Len(CITIES) : CITIES[n].name = name
  ELSE 0

\* C5: at every point, the city names of the Batch are a subsequence of the
\* city names of CITIES: every name is a city's, and positions in CITIES
\* strictly increase along the Batch.
C5_BatchInCityOrder ==
  /\ \A m \in 1..Len(all_transformed_data) : CityIndex(all_transformed_data[m].city_name) > 0
  /\ \A m1, m2 \in 1..Len(all_transformed_data) :
       m1 < m2 => CityIndex(all_transformed_data[m1].city_name)
                    < CityIndex(all_transformed_data[m2].city_name)

\* C5 witness: the second city failed, the Batch holds the first and the third
C5_Witness ==
  /\ Len(all_transformed_data) = 2
  /\ all_transformed_data[1].city_name = "Bhubaneswar"
  /\ all_transformed_data[2].city_name = "Mumbai"
  /\ log[2].event # "record"

\* a reading that is a non-empty dict in which fields are missing but none is malformed
OnlyMissingFields(raw) ==
  /\ raw.tag = "dict"
  /\ DOMAIN raw.d # {}
  /\ "weather" \in DOMAIN raw.d => Len(raw.d.weather) > 0

\* C6: transform_weather_data returns None on a null or empty reading, and on
\* every non-empty reading, whichever fields are missing, a record with null for
\* the missing leaves and the city name and country code it was given.
C6_TransformNeverRaises ==
  \A n \in 1..Len(last_transform) :
    LET raw == last_transform[n].raw
        res == last_transform[n].result
    IN  /\ (raw.tag = "None" \/ DOMAIN raw.d = {}) => res.kind = "None"
        /\ OnlyMissingFields(raw) =>
             /\ res.kind = "record"
             /\ res.rec.city_name = CityNames[i - 1]
             /\ res.rec.country_code = CITIES[i - 1].country
             /\ "main" \notin DOMAIN raw.d => res.rec.temperature_c = Null

\* the archive and table calls of a run that collected something
WritesOfBatch ==
  /\ Len(uploads) <= 1
  /\ Len(loads) <= 1
  /\ Len(inserts) <= 1
  /\ uploads # <<>> =>
       /\ LoopOver
       /\ all_transformed_data # <<>>
       /\ json_loads(uploads[1].payload) = all_transformed_data
  /\ loads # <<>> => uploads # <<>> /\ loads[1] = all_transformed_data
  /\ inserts # <<>> => loads # <<>> /\ inserts[1].rows = all_transformed_data

\* C7 as stated: every ended run with a non-empty Batch made exactly one
\* upload of the whole Batch and exactly one load, in one insertion, of it.
C7_Original ==
  (Ended /\ LoopOver /\ all_transformed_data # <<>>) =>
     /\ WritesOfBatch
     /\ Len(uploads) = 1
     /\ Len(loads) = 1
     /\ Len(inserts) = 1

\* C7 amended: in every run whose Batch is non-empty the archive upload is made
\* exactly once, after the last city, with the whole Batch as one object; when
\* that upload returns, the table load is made exactly once with the same Batch
\* and makes at most one bulk insertion of it (exactly one when the run
\* completes); when the upload raises, the table load is not made.  No call is
\* made per record or twice.
C7_WritesOncePerRun ==
  /\ WritesOfBatch
  /\ (Ended /\ LoopOver /\ all_transformed_data # <<>>) =>
       /\ Len(uploads) = 1
       /\ uploads[1].outcome = "ok" => Len(loads) = 1
       /\ uploads[1].outcome = "raise" => Len(loads) = 0
       /\ pc = "done" => Len(inserts) = 1

\* C7 witness: the first city succeeded, the second failed on its fetch, the
\* third succeeded; the run uploaded and loaded the two records and completed
C7_Witness ==
  /\ pc = "done"
  /\ Len(all_transformed_data) = 2
  /\ Len(log) = 3
  /\ log[2].event = "fetch raised"
  /\ Len(uploads) = 1
  /\ Len(loads) = 1
  /\ Len(inserts) = 1

\* C8: when insert_rows_json returns a non-empty error list, the loader has
\* made that one insertion only and main() completes without an exception.
C8_InsertErrorsSwallowed ==
  \A n \in 1..Len(inserts) :
    inserts[n].outcome = "errors" =>
      /\ pc = "done"
      /\ error = "none"
      /\ Len(inserts) = 1
      /\ Len(loads) = 1

\* C8 witness: the insertion returned errors and the run completed
C8_Witness ==
  /\ pc = "done"
  /\ Len(inserts) = 1
  /\ inserts[1].outcome = "errors"

\* C9: when upload_to_gcs raises, the exception leaves main() and the table
\* load is never made; the table load is only made after an upload that returned.
C9_ArchiveFailureFatal ==
  /\ \A n \in 1..Len(uploads) :
       uploads[n].outcome = "raise" =>
         /\ pc = "raised"
         /\ error = "StorageError"
         /\ loads = <<>>
         /\ inserts = <<>>
  /\ (loads # <<>> \/ pc = "load") =>
       /\ Len(uploads) = 1
       /\ uploads[1].outcome = "ok"

\* C9 witness: the upload of a non-empty Batch raised
C9_Witness ==
  /\ pc = "raised"
  /\ error = "StorageError"
  /\ Len(uploads) = 1
  /\ uploads[1].outcome = "raise"
  /\ all_transformed_data # <<>>

\* C10 as stated: of two archive objects whose runs started at least one
\* second apart, the later one has the strictly greater key.
C10_Original ==
  \A a, b \in 1..Len(objects) :
    (a < b /\ objects[b].started - objects[a].started >= TicksPerSec) =>
       KeyLess(objects[a].key, objects[b].key)

\* C10 amended: of two archive objects of consecutive runs whose keys were
\* computed (line 117) at least one second apart, the later one has the
\* strictly greater key, so it is a new object.
C10_KeysIncrease ==
  \A a, b \in 1..Len(objects) :
    (a < b /\ objects[b].at - objects[a].at >= TicksPerSec) =>
       /\ KeyLess(objects[a].key, objects[b].key)
       /\ objects[a].key # objects[b].key

\* C10 witness: two runs archived, the second key computed a second or more
\* after the first
C10_Witness ==
  /\ Len(objects) = 2
  /\ objects[1].run = 1
  /\ objects[2].run = 2
  /\ objects[2].at - objects[1].at >= TicksPerSec

====
